---- MODULE Spec2Model ----
(***************************************************************************)
(* Model of src/network/api-monitor/monitor.py: the ServiceMonitor         *)
(* probe-and-aggregate loop (run), the three protocol checks, the status   *)
(* classification, the log sink and the SIGINT handler.                    *)
(*                                                                         *)
(* Times are whole milliseconds.  Writes to the console are taken to       *)
(* succeed; appending to the log file (open(..., 'a') in _log) may raise   *)
(* OSError, as may happen with an unwritable path or a full disk.          *)
(* The timestamp prefix of a downtime event / log line is left out of the  *)
(* modelled text.                                                          *)
(***************************************************************************)
EXTENDS Integers, Sequences, FiniteSets, TLC

\* ---------------------------------------------------------------- bounds
\* no probe is started once this many checks were recorded
MaxChecks == 2
\* number of SIGINT deliveries explored
MaxSignals == 2

\* ----------------------------------------------------- program constants
\* argparse default of --timeout, seconds
DefaultTimeout == 5
\* argparse default of --threshold, milliseconds
DefaultThreshold == 100
\* argparse default of --interval, seconds
DefaultInterval == 1

\* Python's None for the error_msg slot of an outcome
None == "<None>"

\* values of check_type: the three supported ones and an unsupported one
CheckTypes == {"http", "tcp", "icmp", "udp"}

\* targets, as sequences of characters
Targets == { <<"a", ":", "b", ":", "8", "0">>, <<"h">>, <<"h", ":", "x">> }

\* latencies the monotonic clock can measure for one probe, ms
ElapsedMs == {50, 100, 150}

\* status codes a server can answer with
HttpStatuses == {199, 200, 399, 400}

\* the latency explored for a probe that ends in a failure
FailedElapsedMs == {150}

VARIABLES
    check_type,        \* self.check_type
    target,            \* self.target
    threshold,         \* self.threshold (ms)
    timeout,           \* self.timeout (s)
    log_file,          \* TRUE iff self.log_file is set
    interval,          \* self.interval (s)
    start_time,        \* self.stats.start_time, set at construction
    running,           \* self.running
    total_checks,      \* self.stats.total_checks
    successful_checks, \* self.stats.successful_checks
    failed_checks,     \* self.stats.failed_checks
    response_times,    \* self.stats.response_times
    downtime_events,   \* self.stats.downtime_events
    pc,                \* position of run()
    result,            \* (success, response_time, error_msg) of the tick
    status_out,        \* status lines printed by _print_status
    log_lines,         \* lines appended to the log file
    summaries,         \* summaries printed by _print_statistics
    fault,             \* exception propagating out of run(), or "none"
    open_socks,        \* sockets opened by a probe and not yet closed
    last_ev,           \* what the network did to the last probe
    probes_started,    \* number of probes dispatched
    probes_returned,   \* number of probes that returned an outcome
    mark,              \* snapshot taken when SIGINT hits a probe in flight
    signals,           \* SIGINT deliveries so far
    mark_idle,         \* snapshot taken when SIGINT hits run() between probes
    last_addr,         \* (host, port) the last connect_ex was given
    acquired,          \* sockets, connections, subprocesses opened so far
    sleeps,            \* number of time.sleep calls that returned
    gap                \* ms since the last probe was started

vars == << check_type, target, threshold, timeout, log_file, interval,
           start_time, running,
           total_checks, successful_checks, failed_checks, response_times,
           downtime_events, pc, result, status_out, log_lines, summaries,
           fault, open_socks, last_ev, probes_started, probes_returned,
           mark, signals, mark_idle, last_addr, acquired, sleeps, gap >>

config == << check_type, target, threshold, timeout, log_file, interval,
             start_time >>
stats == << total_checks, successful_checks, failed_checks, response_times,
            downtime_events >>
sinks == << status_out, log_lines, summaries >>
hist == << last_ev, probes_started, probes_returned, mark, signals,
           mark_idle, last_addr, acquired, sleeps, gap >>

NoResult == [success |-> FALSE, response_time |-> 0, error_msg |-> "<no result>"]
NoEvent == [kind |-> "none", code |-> 0, elapsed |-> 0, rtt |-> 0]
NoMark == [set |-> FALSE, total |-> 0, started |-> 0]
NoAddr == [host |-> << >>, port |-> 0]

\* ------------------------------------------------------------- outcomes
Returned(s, t, e) ==
    [raised |-> FALSE, success |-> s, response_time |-> t, error_msg |-> e,
     opened |-> 0, closed |-> 0, addr |-> NoAddr]

Raised(e) ==
    [raised |-> TRUE, success |-> FALSE, response_time |-> 0, error_msg |-> e,
     opened |-> 0, closed |-> 0, addr |-> NoAddr]

\* ------------------------------------------------------ what can happen
\* requests.get: a response arrives, or one of the exceptions is raised
HttpEvents ==
    [kind : {"response"}, code : {200, 399}, elapsed : ElapsedMs, rtt : {0}]
    \cup [kind : {"response"}, code : HttpStatuses \ {200, 399},
          elapsed : FailedElapsedMs, rtt : {0}]
    \cup [kind : {"Timeout", "ConnectionError", "Exception"},
          code : {0}, elapsed : {0}, rtt : {0}]

\* results of sock.connect_ex: 0, ECONNREFUSED, EAGAIN (connect timed out)
TcpCodes == {0, 111, 11}

\* sock.connect_ex returns a code, or raises while resolving the address
\* (gaierror, or e.g. OverflowError for a port outside 0-65535). The
\* except socket.timeout clause is modelled as written, although
\* connect_ex reports a connect that timed out as the code EAGAIN.
TcpEvents ==
    [kind : {"connect_ex"}, code : {0}, elapsed : ElapsedMs, rtt : {0}]
    \cup [kind : {"connect_ex"}, code : TcpCodes \ {0},
          elapsed : FailedElapsedMs, rtt : {0}]
    \cup [kind : {"socket.timeout", "gaierror", "Exception"},
          code : {0}, elapsed : {0}, rtt : {0}]

\* subprocess.run(['ping', ...]): the exit code and what stdout holds
\* ("rtt": 'time=<rtt>ms', "bad": 'time=' followed by no number,
\*  "absent": no 'time=' marker), or an exception
IcmpEvents ==
    [kind : {"rtt"}, code : {0}, elapsed : {150}, rtt : ElapsedMs]
    \cup [kind : {"bad"}, code : {0}, elapsed : ElapsedMs, rtt : {0}]
    \cup [kind : {"absent"}, code : {0}, elapsed : ElapsedMs, rtt : {0}]
    \cup [kind : {"absent"}, code : {1}, elapsed : FailedElapsedMs, rtt : {0}]
    \cup [kind : {"TimeoutExpired", "Exception"},
          code : {0}, elapsed : {0}, rtt : {0}]

\* ------------------------------------------------------ target parsing
Digits == {"0", "1", "2", "3", "4", "5", "6", "7", "8", "9"}

\* ':' in self.target
HasColon(t) == \E i \in 1..Len(t) : t[i] = ":"

\* rsplit as self.target.split(':', 1): the first colon, not the last
rsplit_FirstColon(t) ==
    LET i == CHOOSE k \in 1..Len(t) :
                 t[k] = ":" /\ \A j \in 1..(k-1) : t[j] # ":"
    IN  << SubSeq(t, 1, i - 1), SubSeq(t, i + 1, Len(t)) >>

\* self.target.rsplit(':', 1)
rsplit(t) ==
    LET i == CHOOSE k \in 1..Len(t) :
                 t[k] = ":" /\ \A j \in (k+1)..Len(t) : t[j] # ":"
    IN  << SubSeq(t, 1, i - 1), SubSeq(t, i + 1, Len(t)) >>

\* int(port) does not raise ValueError (targets hold no sign or blank)
IsInt(s) == Len(s) > 0 /\ \A i \in 1..Len(s) : s[i] \in Digits

\* int(s) for a string of digits
DigitVal(c) ==
    CASE c = "0" -> 0 [] c = "1" -> 1 [] c = "2" -> 2 [] c = "3" -> 3
      [] c = "4" -> 4 [] c = "5" -> 5 [] c = "6" -> 6 [] c = "7" -> 7
      [] c = "8" -> 8 [] c = "9" -> 9

RECURSIVE int(_)
int(s) ==
    IF Len(s) = 0 THEN 0
    ELSE 10 * int(SubSeq(s, 1, Len(s) - 1)) + DigitVal(s[Len(s)])

\* ------------------------------------------------------------ the checks
\* a probe that acquired and released its connection / subprocess
Scoped(o) == [o EXCEPT !.opened = 1, !.closed = 1]

\* _check_http reporting the timeout in seconds (no * 1000)
_check_http_TimeoutSeconds(ev, tmo) ==
    CASE ev.kind = "response" ->
           IF 200 <= ev.code /\ ev.code < 400
           THEN Scoped(Returned(TRUE, ev.elapsed, None))
           ELSE Scoped(Returned(FALSE, ev.elapsed, "HTTP " \o ToString(ev.code)))
      [] ev.kind = "Timeout" ->
           Scoped(Returned(FALSE, tmo, "Timeout"))
      [] ev.kind = "ConnectionError" ->
           Scoped(Returned(FALSE, 0, "Connection Error: refused"))
      [] OTHER ->
           Scoped(Returned(FALSE, 0, "Error: failed"))

\* _check_http with the success range closed at 400
_check_http_Upto400(ev, tmo) ==
    CASE ev.kind = "response" ->
           IF 200 <= ev.code /\ ev.code <= 400
           THEN Scoped(Returned(TRUE, ev.elapsed, None))
           ELSE Scoped(Returned(FALSE, ev.elapsed, "HTTP " \o ToString(ev.code)))
      [] ev.kind = "Timeout" ->
           Scoped(Returned(FALSE, tmo * 1000, "Timeout"))
      [] ev.kind = "ConnectionError" ->
           Scoped(Returned(FALSE, 0, "Connection Error: refused"))
      [] OTHER ->
           Scoped(Returned(FALSE, 0, "Error: failed"))

_check_http(ev, tmo) ==
    CASE ev.kind = "response" ->
           IF 200 <= ev.code /\ ev.code < 400
           THEN Scoped(Returned(TRUE, ev.elapsed, None))
           ELSE Scoped(Returned(FALSE, ev.elapsed, "HTTP " \o ToString(ev.code)))
      [] ev.kind = "Timeout" ->
           Scoped(Returned(FALSE, tmo * 1000, "Timeout"))
      [] ev.kind = "ConnectionError" ->
           Scoped(Returned(FALSE, 0, "Connection Error: refused"))
      [] OTHER ->
           Scoped(Returned(FALSE, 0, "Error: failed"))

_check_tcp(tgt, ev, tmo) ==
    IF ~HasColon(tgt)
    THEN Returned(FALSE, 0, "Formato invalido. Use host:porta")
    ELSE IF ~IsInt(rsplit(tgt)[2])
    THEN Returned(FALSE, 0, "Error: invalid literal for int()")
    ELSE \* the socket exists from here on; only line 141 closes it
      LET to == [host |-> rsplit(tgt)[1], port |-> int(rsplit(tgt)[2])]
          Opened(o) == [o EXCEPT !.opened = 1, !.addr = to]
      IN
      CASE ev.kind = "connect_ex" ->
             IF ev.code = 0
             THEN Opened(Scoped(Returned(TRUE, ev.elapsed, None)))
             ELSE Opened(Scoped(Returned(FALSE, ev.elapsed,
                     "Connection refused (code: " \o ToString(ev.code) \o ")")))
        [] ev.kind = "socket.timeout" ->
             Opened(Returned(FALSE, tmo * 1000, "Timeout"))
        [] ev.kind = "gaierror" ->
             Opened(Returned(FALSE, 0, "DNS resolution failed"))
        [] OTHER ->
             Opened(Returned(FALSE, 0, "Error: failed"))

_check_icmp(ev, tmo) ==
    CASE ev.kind \in {"rtt", "bad", "absent"} ->
           IF ev.code = 0
           THEN IF ev.kind = "rtt"
                THEN Scoped(Returned(TRUE, ev.rtt, None))
                ELSE Scoped(Returned(TRUE, ev.elapsed, None))
           ELSE Scoped(Returned(FALSE, ev.elapsed, "Host unreachable"))
      [] ev.kind = "TimeoutExpired" ->
           Scoped(Returned(FALSE, tmo * 1000, "Timeout"))
      [] OTHER ->
           Scoped(Returned(FALSE, 0, "Error: failed"))

\* wall-clock time the probe took, ms
Duration(ev, tmo) ==
    IF ev.kind \in {"Timeout", "TimeoutExpired", "socket.timeout"}
    THEN tmo * 1000
    ELSE ev.elapsed

\* the events the dispatched check can meet
EventsOf(ct) ==
    CASE ct = "http" -> HttpEvents
      [] ct = "tcp"  -> TcpEvents
      [] ct = "icmp" -> IcmpEvents
      [] OTHER -> {}

_check_service(ct, tgt, ev, tmo) ==
    CASE ct = "http" -> _check_http(ev, tmo)
      [] ct = "tcp"  -> _check_tcp(tgt, ev, tmo)
      [] ct = "icmp" -> _check_icmp(ev, tmo)
      [] OTHER -> Raised("ValueError")

\* --------------------------------------------------------------- sinks
\* Status with the threshold compared by >= instead of >
Status_Ge(success, response_time, thr) ==
    IF success
    THEN IF response_time >= thr THEN "LENTO" ELSE "UP"
    ELSE "DOWN"

\* the verdict _print_status shows for an outcome
Status(success, response_time, thr) ==
    IF success
    THEN IF response_time > thr THEN "LENTO" ELSE "UP"
    ELSE "DOWN"

\* the details _print_status shows next to the verdict
Details(success, response_time, error_msg, thr) ==
    IF success
    THEN IF response_time > thr
         THEN "(" \o ToString(response_time) \o "ms > " \o ToString(thr)
              \o "ms threshold)"
         ELSE "(" \o ToString(response_time) \o "ms)"
    ELSE (IF error_msg # None THEN error_msg ELSE "Unknown error")
         \o (IF response_time > 0
             THEN " (apos " \o ToString(response_time) \o "ms)"
             ELSE "")

\* f"{error_msg}" as line 304 formats it
Fmt(error_msg) == IF error_msg = None THEN "None" ELSE error_msg

\* the outcomes of one call of _log: the line is written, or open/write
\* raises; without a log file the call does nothing
LogOutcomes == IF log_file THEN {"written", "OSError"} ELSE {"skipped"}

\* the log file after _log(message) with the given outcome
_log(message, how) ==
    IF how = "written" THEN Append(log_lines, message) ELSE log_lines

\* a log message "<label>: <text>"
Line(label, text) == [label |-> label, text |-> text]

\* the line run() logs for every tick
TickLine(success, response_time, error_msg) ==
    Line(IF success THEN "SUCCESS" ELSE "FAILURE",
         ToString(response_time) \o "ms - "
         \o (IF error_msg # None THEN error_msg ELSE "OK"))

\* s[:n]
Take(s, n) == SubSeq(s, 1, IF Len(s) < n THEN Len(s) ELSE n)

\* Numbers that are floats in the program are kept in hundredths, cut off
\* after the second decimal.

\* get_uptime_percentage that calls a run without checks fully up
get_uptime_percentage_EmptyIsFull(successful, total) ==
    IF total = 0 THEN 100 * 100 ELSE (successful * 100 * 100) \div total

\* MonitorStats.get_uptime_percentage, in hundredths of a percent
get_uptime_percentage(successful, total) ==
    IF total = 0 THEN 0 ELSE (successful * 100 * 100) \div total

RECURSIVE Sum(_)
Sum(s) == IF Len(s) = 0 THEN 0 ELSE s[1] + Sum(Tail(s))

\* x put into the ascending sequence s
RECURSIVE Insert(_, _)
Insert(x, s) ==
    IF Len(s) = 0 THEN << x >>
    ELSE IF x <= s[1] THEN << x >> \o s
    ELSE << s[1] >> \o Insert(x, Tail(s))

\* sorted(s)
RECURSIVE Sorted(_)
Sorted(s) == IF Len(s) = 0 THEN << >> ELSE Insert(s[1], Sorted(Tail(s)))

\* MonitorStats.get_avg_response_time, in hundredths of a ms
get_avg_response_time(times) ==
    IF Len(times) = 0 THEN 0 ELSE (Sum(times) * 100) \div Len(times)

\* MonitorStats.get_median_response_time, in hundredths of a ms
get_median_response_time(times) ==
    IF Len(times) = 0 THEN 0
    ELSE LET d == Sorted(times)
             n == Len(d)
         IN  IF n % 2 = 1
             THEN d[(n \div 2) + 1] * 100
             ELSE ((d[n \div 2] + d[(n \div 2) + 1]) * 100) \div 2

\* what _print_statistics shows
Summary ==
    [total_checks |-> total_checks,
     successful_checks |-> successful_checks,
     failed_checks |-> failed_checks,
     uptime |-> get_uptime_percentage(successful_checks, total_checks),
     avg_time |-> get_avg_response_time(response_times),
     median_time |-> get_median_response_time(response_times),
     samples |-> Len(response_times),
     events |-> Take(downtime_events, 5),
     more |-> IF Len(downtime_events) > 5 THEN Len(downtime_events) - 5 ELSE 0]

\* ------------------------------------------------------------- the run
Thresholds == {50, DefaultThreshold}
Timeouts == {DefaultTimeout}
Intervals == {DefaultInterval}
Supported == {"http", "tcp", "icmp"}

\* the targets explored for a check type: only the TCP check reads the
\* text of its target, the other checks hand it on unread
TargetsOf(ct) == IF ct = "tcp" THEN Targets ELSE { << "h" >> }

Init ==
    /\ check_type \in CheckTypes
    /\ target \in TargetsOf(check_type)
    /\ threshold \in Thresholds
    /\ timeout \in Timeouts
    /\ log_file \in BOOLEAN
    /\ interval \in Intervals
    /\ start_time = 0
    /\ running = TRUE
    /\ total_checks = 0
    /\ successful_checks = 0
    /\ failed_checks = 0
    /\ response_times = << >>
    /\ downtime_events = << >>
    /\ pc = "loop"
    /\ result = NoResult
    /\ status_out = << >>
    /\ log_lines = << >>
    /\ summaries = << >>
    /\ fault = "none"
    /\ open_socks = 0
    /\ last_ev = NoEvent
    /\ probes_started = 0
    /\ probes_returned = 0
    /\ mark = NoMark
    /\ signals = 0
    /\ mark_idle = NoMark
    /\ last_addr = NoAddr
    /\ acquired = 0
    /\ sleeps = 0
    /\ gap = 0

\* Signal whose handler only prints and leaves the flag alone
Signal_NoFlag ==
    /\ pc # "done"
    /\ signals < MaxSignals
    /\ running' = running
    /\ signals' = signals + 1
    /\ mark' = IF pc = "probing" /\ ~mark.set
               THEN [set |-> TRUE, total |-> total_checks,
                     started |-> probes_started]
               ELSE mark
    /\ mark_idle' = IF pc \in {"loop", "sleep"} /\ ~mark_idle.set
                    THEN [set |-> TRUE, total |-> total_checks,
                          started |-> probes_started]
                    ELSE mark_idle
    /\ UNCHANGED << config, stats, pc, result, sinks, fault, open_socks,
                    last_ev, probes_started, probes_returned, last_addr,
                    acquired, sleeps, gap >>

\* Signal whose handler flips the flag instead of clearing it
Signal_Toggle ==
    /\ pc # "done"
    /\ signals < MaxSignals
    /\ running' = ~running
    /\ signals' = signals + 1
    /\ mark' = IF pc = "probing" /\ ~mark.set
               THEN [set |-> TRUE, total |-> total_checks,
                     started |-> probes_started]
               ELSE mark
    /\ mark_idle' = IF pc \in {"loop", "sleep"} /\ ~mark_idle.set
                    THEN [set |-> TRUE, total |-> total_checks,
                          started |-> probes_started]
                    ELSE mark_idle
    /\ UNCHANGED << config, stats, pc, result, sinks, fault, open_socks,
                    last_ev, probes_started, probes_returned, last_addr,
                    acquired, sleeps, gap >>

\* _signal_handler: SIGINT is delivered while run() is anywhere
Signal ==
    /\ pc # "done"
    /\ signals < MaxSignals
    /\ running' = FALSE
    /\ signals' = signals + 1
    /\ mark' = IF pc = "probing" /\ ~mark.set
               THEN [set |-> TRUE, total |-> total_checks,
                     started |-> probes_started]
               ELSE mark
    /\ mark_idle' = IF pc \in {"loop", "sleep"} /\ ~mark_idle.set
                    THEN [set |-> TRUE, total |-> total_checks,
                          started |-> probes_started]
                    ELSE mark_idle
    /\ UNCHANGED << config, stats, pc, result, sinks, fault, open_socks,
                    last_ev, probes_started, probes_returned, last_addr,
                    acquired, sleeps, gap >>

\* LoopTest as 'while True:', the flag is never read
LoopTest_NoCancel ==
    /\ pc = "loop"
    /\ total_checks < MaxChecks
    /\ pc' = "check"
    /\ UNCHANGED << config, running, stats, result, sinks, fault, open_socks,
                    hist >>

\* while self.running:
LoopTest ==
    /\ pc = "loop"
    /\ IF running
       THEN total_checks < MaxChecks /\ pc' = "check"
       ELSE pc' = "finally"
    /\ UNCHANGED << config, running, stats, result, sinks, fault, open_socks,
                    hist >>

\* Dispatch without the try/finally: the ValueError leaves run() at once
Dispatch_NoFinally ==
    /\ pc = "check"
    /\ IF check_type \in Supported
       THEN /\ pc' = "probing"
            /\ probes_started' = probes_started + 1
            /\ fault' = fault
       ELSE /\ pc' = "done"
            /\ probes_started' = probes_started
            /\ fault' = "ValueError"
    /\ gap' = 0
    /\ UNCHANGED << config, running, stats, result, sinks, open_socks,
                    last_ev, probes_returned, mark, signals, mark_idle,
                    last_addr, acquired, sleeps >>

\* self._check_service() is called: the check starts, or the selector is
\* rejected
Dispatch ==
    /\ pc = "check"
    /\ IF check_type \in Supported
       THEN /\ pc' = "probing"
            /\ probes_started' = probes_started + 1
            /\ fault' = fault
       ELSE /\ pc' = "finally"
            /\ probes_started' = probes_started
            /\ fault' = "ValueError"
    /\ gap' = 0
    /\ UNCHANGED << config, running, stats, result, sinks, open_socks,
                    last_ev, probes_returned, mark, signals, mark_idle,
                    last_addr, acquired, sleeps >>

\* the check in flight comes back
ProbeReturn ==
    /\ pc = "probing"
    /\ \E ev \in EventsOf(check_type) :
         LET o == _check_service(check_type, target, ev, timeout)
             leak == o.opened - o.closed
         IN  /\ last_ev' = ev
             /\ gap' = gap + Duration(ev, timeout)
             /\ acquired' = acquired + o.opened
             /\ last_addr' = IF o.addr # NoAddr THEN o.addr ELSE last_addr
             /\ \E reclaimed \in (IF leak > 0 THEN BOOLEAN ELSE {FALSE}) :
                  open_socks' = open_socks + (IF reclaimed THEN 0 ELSE leak)
             /\ IF o.raised
                THEN /\ pc' = "finally"
                     /\ fault' = o.error_msg
                     /\ UNCHANGED << result, probes_returned >>
                ELSE /\ pc' = "record"
                     /\ fault' = fault
                     /\ result' = [success |-> o.success,
                                   response_time |-> o.response_time,
                                   error_msg |-> o.error_msg]
                     /\ probes_returned' = probes_returned + 1
    /\ UNCHANGED << config, running, stats, sinks, probes_started, mark,
                    signals, mark_idle, sleeps >>

\* the runtime finalizes socket objects nothing refers to any more
Finalize ==
    /\ open_socks > 0
    /\ open_socks' = 0
    /\ UNCHANGED << config, running, stats, pc, result, sinks, fault, hist >>

\* Record that forgets failed_checks += 1
Record_NoFailedCount ==
    /\ pc = "record"
    /\ total_checks' = total_checks + 1
    /\ IF result.success
       THEN /\ successful_checks' = successful_checks + 1
            /\ response_times' = Append(response_times, result.response_time)
            /\ UNCHANGED << failed_checks, downtime_events >>
       ELSE /\ downtime_events' = Append(downtime_events, Fmt(result.error_msg))
            /\ UNCHANGED << failed_checks, successful_checks, response_times >>
    /\ pc' = "status"
    /\ UNCHANGED << config, running, result, sinks, fault, open_socks, hist >>

\* Record that keeps a latency sample only for checks within the threshold
Record_SkipSlowSample ==
    /\ pc = "record"
    /\ total_checks' = total_checks + 1
    /\ IF result.success
       THEN /\ successful_checks' = successful_checks + 1
            /\ response_times' =
                 IF result.response_time > threshold
                 THEN response_times
                 ELSE Append(response_times, result.response_time)
            /\ UNCHANGED << failed_checks, downtime_events >>
       ELSE /\ failed_checks' = failed_checks + 1
            /\ downtime_events' = Append(downtime_events, Fmt(result.error_msg))
            /\ UNCHANGED << successful_checks, response_times >>
    /\ pc' = "status"
    /\ UNCHANGED << config, running, result, sinks, fault, open_socks, hist >>

\* Record that does not repeat the downtime event of the previous failure
Record_DedupEvents ==
    /\ pc = "record"
    /\ total_checks' = total_checks + 1
    /\ IF result.success
       THEN /\ successful_checks' = successful_checks + 1
            /\ response_times' = Append(response_times, result.response_time)
            /\ UNCHANGED << failed_checks, downtime_events >>
       ELSE /\ failed_checks' = failed_checks + 1
            /\ downtime_events' =
                 IF /\ Len(downtime_events) > 0
                    /\ downtime_events[Len(downtime_events)]
                         = Fmt(result.error_msg)
                 THEN downtime_events
                 ELSE Append(downtime_events, Fmt(result.error_msg))
            /\ UNCHANGED << successful_checks, response_times >>
    /\ pc' = "status"
    /\ UNCHANGED << config, running, result, sinks, fault, open_socks, hist >>

\* Record with total_checks += 1 moved into the success branch
Record_TotalOnSuccessOnly ==
    /\ pc = "record"
    /\ IF result.success
       THEN /\ total_checks' = total_checks + 1
            /\ successful_checks' = successful_checks + 1
            /\ response_times' = Append(response_times, result.response_time)
            /\ UNCHANGED << failed_checks, downtime_events >>
       ELSE /\ failed_checks' = failed_checks + 1
            /\ downtime_events' = Append(downtime_events, Fmt(result.error_msg))
            /\ UNCHANGED << total_checks, successful_checks, response_times >>
    /\ pc' = "status"
    /\ UNCHANGED << config, running, result, sinks, fault, open_socks, hist >>

\* Record that labels every downtime event with the generic text
Record_GenericEvent ==
    /\ pc = "record"
    /\ total_checks' = total_checks + 1
    /\ IF result.success
       THEN /\ successful_checks' = successful_checks + 1
            /\ response_times' = Append(response_times, result.response_time)
            /\ UNCHANGED << failed_checks, downtime_events >>
       ELSE /\ failed_checks' = failed_checks + 1
            /\ downtime_events' = Append(downtime_events, "Unknown error")
            /\ UNCHANGED << successful_checks, response_times >>
    /\ pc' = "status"
    /\ UNCHANGED << config, running, result, sinks, fault, open_socks, hist >>

\* Record that puts the newest downtime event first
Record_PrependEvent ==
    /\ pc = "record"
    /\ total_checks' = total_checks + 1
    /\ IF result.success
       THEN /\ successful_checks' = successful_checks + 1
            /\ response_times' = Append(response_times, result.response_time)
            /\ UNCHANGED << failed_checks, downtime_events >>
       ELSE /\ failed_checks' = failed_checks + 1
            /\ downtime_events' = << Fmt(result.error_msg) >> \o downtime_events
            /\ UNCHANGED << successful_checks, response_times >>
    /\ pc' = "status"
    /\ UNCHANGED << config, running, result, sinks, fault, open_socks, hist >>

\* lines 298-305: the outcome is recorded in self.stats
Record ==
    /\ pc = "record"
    /\ total_checks' = total_checks + 1
    /\ IF result.success
       THEN /\ successful_checks' = successful_checks + 1
            /\ response_times' = Append(response_times, result.response_time)
            /\ UNCHANGED << failed_checks, downtime_events >>
       ELSE /\ failed_checks' = failed_checks + 1
            /\ downtime_events' = Append(downtime_events, Fmt(result.error_msg))
            /\ UNCHANGED << successful_checks, response_times >>
    /\ pc' = "status"
    /\ UNCHANGED << config, running, result, sinks, fault, open_socks, hist >>

\* line 307: _print_status prints the verdict and logs a failure
PrintStatus ==
    /\ pc = "status"
    /\ LET st == Status(result.success, result.response_time, threshold)
           det == Details(result.success, result.response_time,
                          result.error_msg, threshold)
       IN  /\ status_out' = Append(status_out,
                 [status |-> st, success |-> result.success,
                  response_time |-> result.response_time, details |-> det])
           /\ IF result.success
              THEN /\ pc' = "log"
                   /\ UNCHANGED << log_lines, fault >>
              ELSE \E how \in LogOutcomes :
                     /\ log_lines' = _log(Line("DOWNTIME", det), how)
                     /\ IF how = "OSError"
                        THEN pc' = "finally" /\ fault' = "OSError"
                        ELSE pc' = "log" /\ fault' = fault
    /\ UNCHANGED << config, running, stats, result, summaries, open_socks,
                    hist >>

\* lines 310-311: every tick is logged
LogTick ==
    /\ pc = "log"
    /\ \E how \in LogOutcomes :
         /\ log_lines' = _log(TickLine(result.success, result.response_time,
                                       result.error_msg), how)
         /\ IF how = "OSError"
            THEN pc' = "finally" /\ fault' = "OSError"
            ELSE pc' = "sleep" /\ fault' = fault
    /\ UNCHANGED << config, running, stats, result, status_out, summaries,
                    open_socks, hist >>

\* line 313: time.sleep(self.interval)
Sleep ==
    /\ pc = "sleep"
    /\ pc' = "loop"
    /\ sleeps' = sleeps + 1
    /\ gap' = gap + interval * 1000
    /\ UNCHANGED << config, running, stats, result, sinks, fault, open_socks,
                    last_ev, probes_started, probes_returned, mark, signals,
                    mark_idle, last_addr, acquired >>

\* finally: self._print_statistics()
PrintStatistics ==
    /\ pc = "finally"
    /\ summaries' = Append(summaries, Summary)
    /\ pc' = "done"
    /\ UNCHANGED << config, running, stats, result, status_out, log_lines,
                    fault, open_socks, hist >>

\* the steps run() itself takes
RunStep ==
    \/ LoopTest
    \/ Dispatch
    \/ ProbeReturn
    \/ Record
    \/ PrintStatus
    \/ LogTick
    \/ Sleep
    \/ PrintStatistics

Next ==
    \/ Signal
    \/ LoopTest
    \/ Dispatch
    \/ ProbeReturn
    \/ Finalize
    \/ Record
    \/ PrintStatus
    \/ LogTick
    \/ Sleep
    \/ PrintStatistics

Spec == Init /\ [][Next]_vars

\* the interpreter keeps executing run(); every probe and sleep returns
FairSpec == Spec /\ WF_vars(RunStep)

\* ===================================================================
\* Properties
\* ===================================================================

\* C1: when SIGINT arrives while a probe is in flight, that probe still
\* returns, exactly one more check is recorded, no further probe is
\* started, run() ends and the summary is printed exactly once.
C1_CancelMidRun ==
    /\ [](mark.set =>
            /\ probes_started = mark.started
            /\ total_checks <= mark.total + 1
            /\ Len(summaries) <= 1
            /\ (pc = "done" =>
                  /\ probes_returned = mark.started
                  /\ total_checks = mark.total + 1
                  /\ Len(summaries) = 1))
    /\ (mark.set ~> pc = "done")

C1_Witness ==
    /\ mark.set
    /\ pc = "done"
    /\ mark.total = 1
    /\ total_checks = 2
    /\ Len(summaries) = 1

\* C2: however run() is left (cancellation seen by the loop test, the
\* ValueError of an unknown selector, or a fault raised inside a tick),
\* the summary is printed exactly once, and never before the loop is left.
C2_SummaryExactlyOnce ==
    /\ (pc = "done" => Len(summaries) = 1)
    /\ (pc # "done" => Len(summaries) = 0)
    /\ (pc = "done" =>
          \/ fault = "none" /\ ~running
          \/ fault = "ValueError"
          \/ fault = "OSError")

C2_Witness ==
    /\ pc = "done"
    /\ fault = "OSError"
    /\ running
    /\ Len(summaries) = 1

\* C3: total_checks = successful_checks + failed_checks in every state of
\* the run, and in every summary that is printed.
C3_TotalIsSum ==
    /\ total_checks = successful_checks + failed_checks
    /\ \A i \in 1..Len(summaries) :
         summaries[i].total_checks
           = summaries[i].successful_checks + summaries[i].failed_checks

C3_Witness ==
    /\ pc = "done"
    /\ successful_checks = 1
    /\ failed_checks = 1
    /\ summaries[1].total_checks = 2

\* C4: the number of latency samples equals successful_checks; a check
\* slower than the threshold adds its sample too, a failed check adds none.
C4_SamplesMatchSuccesses ==
    Len(response_times) = successful_checks

C4_Witness ==
    /\ successful_checks = 1
    /\ failed_checks = 1
    /\ Len(status_out) = 2
    /\ \E i \in 1..Len(status_out) : status_out[i].status = "LENTO"

\* C5: the number of downtime events equals failed_checks; every failed
\* check adds one event, a successful check adds none.
C5_EventsMatchFailures ==
    Len(downtime_events) = failed_checks

C5_Witness ==
    /\ failed_checks = 2
    /\ Len(downtime_events) = 2
    /\ downtime_events[1] = downtime_events[2]

\* C6: total_checks is the number of probes that returned an outcome (one
\* behind while the outcome waits to be recorded), and it changes only in
\* the recording step, by exactly one.
C6_OneMutationPerProbe ==
    /\ [](total_checks = IF pc = "record" THEN probes_returned - 1
                                          ELSE probes_returned)
    /\ [][total_checks' # total_checks =>
            /\ pc = "record"
            /\ pc' = "status"
            /\ total_checks' = total_checks + 1]_vars

C6_Witness ==
    /\ probes_returned = 2
    /\ total_checks = 2
    /\ signals > 0
    /\ pc = "sleep"

\* the kinds of event that are per-check errors
ErrorKinds ==
    {"Timeout", "ConnectionError", "Exception", "socket.timeout", "gaierror",
     "TimeoutExpired"}

\* C7: a per-check error of a supported protocol comes back as an outcome
\* with success = False and never leaves the check as an exception, and
\* after a failed check the loop goes on to the next tick unless SIGINT was
\* delivered.
C7_FailedCheckNeverAborts ==
    /\ fault \in {"none", "ValueError", "OSError"}
    /\ (pc = "record" /\ last_ev.kind \in ErrorKinds => ~result.success)
    /\ (probes_returned > 0 /\ ~result.success /\ running
          => pc \notin {"finally", "done"})

\* C8: an unknown selector aborts the loop at the first dispatch with
\* nothing recorded, printed or logged for a tick and the summary still
\* printed; nothing else that happens in a tick aborts the loop.
C8_OnlyUnknownSelectorIsFatal ==
    /\ (check_type \notin Supported =>
          /\ total_checks = 0
          /\ status_out = << >>
          /\ log_lines = << >>
          /\ probes_started = 0)
    /\ (fault = "ValueError" => check_type \notin Supported)
    /\ (pc = "done" => Len(summaries) = 1)
    /\ (fault # "none" => check_type \notin Supported)

\* C9: the verdict printed for an outcome is DOWN when the check failed,
\* LENTO (slow) when it succeeded with response_time > threshold, and UP
\* otherwise, so response_time = threshold is UP.
C9_Classification ==
    \A i \in 1..Len(status_out) :
      LET l == status_out[i]
      IN  /\ (~l.success => l.status = "DOWN")
          /\ (l.success /\ l.response_time > threshold => l.status = "LENTO")
          /\ (l.success /\ l.response_time <= threshold => l.status = "UP")

C9_Witness ==
    \E i \in 1..Len(status_out) :
      /\ status_out[i].success
      /\ status_out[i].response_time = threshold
      /\ status_out[i].status = "UP"

\* C10: when a probe has returned, no socket it opened is still open.
C10_ProbeReleasesSocket ==
    pc = "record" => open_socks = 0

\* the text of t after position k
PortAt(t, k) == SubSeq(t, k + 1, Len(t))

\* t is <host>:<digits>
WellFormed(t) ==
    \E k \in 1..Len(t) :
      /\ t[k] = ":"
      /\ PortAt(t, k) # << >>
      /\ \A j \in (k+1)..Len(t) : t[j] \in Digits

\* C11: a TCP target without a colon, or whose text after the last colon
\* is not a number, gives a failure with response time 0 and an error text
\* and no socket is opened for it; any other target is split at its last
\* colon into the host and the integer port that connect_ex is given.
C11_TcpTargetParsing ==
    (check_type = "tcp" /\ pc = "record") =>
      IF WellFormed(target)
      THEN /\ \E k \in 1..Len(target) :
                /\ target[k] = ":"
                /\ \A j \in (k+1)..Len(target) : target[j] # ":"
                /\ last_addr.host = SubSeq(target, 1, k - 1)
           /\ (target = << "a", ":", "b", ":", "8", "0" >> =>
                 last_addr = [host |-> << "a", ":", "b" >>, port |-> 80])
           /\ acquired = probes_returned
      ELSE /\ ~result.success
           /\ result.response_time = 0
           /\ result.error_msg \notin {None, "Timeout", "DNS resolution failed"}
           /\ acquired = 0
           /\ last_addr = NoAddr

C11_Witness ==
    /\ check_type = "tcp"
    /\ pc = "record"
    /\ target = << "h", ":", "x" >>
    /\ probes_returned = 2
    /\ acquired = 0
    /\ result.response_time = 0

\* C12: a check that times out (the HTTP request, the ping process) gives
\* a failure whose response time is the configured timeout in ms and whose
\* error is "Timeout".
C12_TimeoutOutcome ==
    (pc = "record" /\ last_ev.kind \in {"Timeout", "TimeoutExpired"}) =>
      /\ ~result.success
      /\ result.response_time = timeout * 1000
      /\ result.error_msg = "Timeout"

C12_Witness ==
    /\ pc = "record"
    /\ check_type = "icmp"
    /\ last_ev.kind = "TimeoutExpired"
    /\ result.response_time = 5000

\* C13: the uptime shown is successful_checks / total_checks * 100 when
\* checks were made and 0 when none was made, in which case the summary is
\* still printed; mean and median are 0 when there are no samples.
C13_UptimeAndEmptyStats ==
    /\ \A i \in 1..Len(summaries) :
         LET m == summaries[i]
         IN  /\ (m.total_checks = 0 => m.uptime = 0)
             /\ (m.total_checks > 0 =>
                   /\ m.uptime * m.total_checks <= m.successful_checks * 10000
                   /\ m.successful_checks * 10000
                        < (m.uptime + 1) * m.total_checks)
             /\ (m.samples = 0 => m.avg_time = 0 /\ m.median_time = 0)
    /\ (pc = "done" /\ total_checks = 0 => Len(summaries) = 1)

C13_Witness ==
    /\ pc = "done"
    /\ total_checks = 0
    /\ signals > 0
    /\ summaries[1].uptime = 0
    /\ summaries[1].avg_time = 0
    /\ summaries[1].median_time = 0

TickLineCount ==
    Cardinality({ i \in 1..Len(log_lines) :
                    log_lines[i].label \in {"SUCCESS", "FAILURE"} })

\* C15: with a log file configured, every tick writes its SUCCESS or
\* FAILURE line after the record was applied and before the sleep, so the
\* number of these lines equals total_checks whenever no tick is between its
\* record and its log line; without a log file nothing is written.
C15_EveryTickLogged ==
    /\ (~log_file => log_lines = << >>)
    /\ (log_file /\ pc \in {"status", "log"} =>
          TickLineCount = total_checks - 1)
    /\ (log_file /\ pc \notin {"status", "log"} =>
          TickLineCount = total_checks)
    /\ (log_file /\ pc = "sleep" =>
          log_lines[Len(log_lines)].label
            = IF result.success THEN "SUCCESS" ELSE "FAILURE")

\* C16: the HTTP check succeeds exactly when a response arrives with a
\* status in [200, 400); a response with any other status is a failure
\* whose error names the status and whose response time is the measured one.
C16_HttpSuccessRange ==
    (check_type = "http" /\ pc = "record") =>
      /\ result.success <=>
           (last_ev.kind = "response" /\ last_ev.code >= 200
              /\ last_ev.code < 400)
      /\ (last_ev.kind = "response" =>
            result.response_time = last_ev.elapsed)
      /\ (last_ev.kind = "response" /\ ~result.success =>
            result.error_msg = "HTTP " \o ToString(last_ev.code))
      /\ (result.success => result.error_msg = None)

C16_Witness ==
    /\ check_type = "http"
    /\ pc = "record"
    /\ last_ev.kind = "response"
    /\ last_ev.code = 400
    /\ result.error_msg = "HTTP 400"
    /\ result.response_time = 150

\* a is an initial part of b
IsPrefix(a, b) == Len(a) <= Len(b) /\ SubSeq(b, 1, Len(a)) = a

\* C17: the downtime events only grow at the end: in every step the old
\* list is an initial part of the new one, and every failed check adds one
\* element, also when its cause repeats the previous one.
C17_EventsAppendOnly ==
    [][/\ IsPrefix(downtime_events, downtime_events')
       /\ (failed_checks' # failed_checks =>
             Len(downtime_events') = Len(downtime_events) + 1)]_vars

C17_Witness ==
    /\ pc = "done"
    /\ Len(downtime_events) = 2
    /\ downtime_events[1] # downtime_events[2]
    /\ summaries[1].events = downtime_events

\* the state of the monitor loop
Phase(p) ==
    IF p = "done" THEN "TERMINATED"
    ELSE IF p = "finally" THEN "STOPPING"
    ELSE "RUNNING"

\* C18: the monitor starts RUNNING and only moves RUNNING -> STOPPING ->
\* TERMINATED; TERMINATED is entered with the summary printed; once SIGINT
\* was delivered the run reaches TERMINATED with the summary printed.
C18_Lifecycle ==
    /\ Phase(pc) = "RUNNING"
    /\ [][\/ Phase(pc') = Phase(pc)
          \/ Phase(pc) = "RUNNING" /\ Phase(pc') = "STOPPING"
          \/ Phase(pc) = "STOPPING" /\ Phase(pc') = "TERMINATED"]_vars
    /\ [](Phase(pc) = "TERMINATED" => Len(summaries) = 1)
    /\ (signals > 0 ~> (Phase(pc) = "TERMINATED" /\ Len(summaries) = 1))

C18_Witness ==
    /\ Phase(pc) = "TERMINATED"
    /\ signals > 0
    /\ ~running
    /\ fault = "none"
    /\ total_checks = 2
    /\ Len(summaries) = 1

\* C19: every recorded check is followed by one sleep of the configured
\* interval (also when SIGINT came during the check), a probe starts only
\* after the sleep of the tick before it, and the time from the start of one
\* probe to the start of the next is the probe's duration plus the interval.
C19_SleepAfterEveryCheck ==
    /\ (pc \in {"loop", "check", "finally", "done"} => sleeps = total_checks)
    /\ (pc = "probing" => sleeps = probes_started - 1)
    /\ (pc = "check" /\ probes_returned > 0 =>
          gap = Duration(last_ev, timeout) + interval * 1000)

\* C20: a SIGINT delivery changes nothing but the running flag, which it
\* clears; the flag never becomes true again; after a delivery while run()
\* sleeps or is about to test the flag, no probe is started and no check
\* is recorded any more.
C20_HandlerFrame ==
    /\ [][signals' # signals =>
            /\ ~running'
            /\ UNCHANGED << stats, start_time, pc, result, sinks, fault,
                            open_socks >>]_vars
    /\ [][~running => ~running']_vars
    /\ [][running' # running => signals' # signals]_vars
    /\ [](mark_idle.set =>
            /\ probes_started = mark_idle.started
            /\ total_checks = mark_idle.total)

C20_Witness ==
    /\ mark_idle.set
    /\ mark_idle.total = 1
    /\ signals = 2
    /\ pc = "done"
    /\ total_checks = 1
    /\ probes_started = 1

====
